---- MODULE Spec2Model ----
(***************************************************************************)
(* Model of python_ingestion_job/python_glue_injestion_job.py: the class   *)
(* FTPIngestion, its connection handles and flags, one run of              *)
(* initiate_ingestion split at its calls to the remote host and to the     *)
(* storage backend, and the remote host, the bucket and the wall clock it  *)
(* works against.                                                          *)
(*                                                                         *)
(* Character strings are sequences of one-character strings, so that path  *)
(* and key concatenation, split("/") and str() are computed as the code    *)
(* computes them.                                                          *)
(***************************************************************************)
EXTENDS Integers, Sequences, FiniteSets, TLC

VARIABLES
    ssh_client,      \* self.ssh_client: "None", "new" (SSHClient(), not connected), "connected", "closed"
    sftp_client,     \* self.sftp_client: "None", "open", "closed"
    ssh_ok,          \* self.ssh_ok
    sftp_ok,         \* self.sftp_ok
    ftp_directory_path, \* self.ftp_directory_path
    remote_fs,       \* the files on the FTP host: a set of absolute paths
    s3,              \* the bucket: the set of object keys
    now,             \* the wall clock read by datetime.now()
    ticks,           \* hours the clock has advanced
    pc,              \* position in initiate_ingestion
    files_to_upload, \* local of initiate_ingestion (line 182)
    s3_partition,    \* local of initiate_ingestion (line 183)
    files_to_move,   \* local of initiate_ingestion (line 184)
    i,               \* index of the loop of line 186
    j,               \* index of the loop of line 195
    runs,            \* runs of initiate_ingestion started so far
    hist             \* what the current run did, and what earlier runs did

vars == <<ssh_client, sftp_client, ssh_ok, sftp_ok, ftp_directory_path, remote_fs, s3, now, ticks, pc,
          files_to_upload, s3_partition, files_to_move, i, j, runs, hist>>

-----------------------------------------------------------------------------
(* Bounds of the model *)

MaxFiles == 2
MaxRuns == 2
MaxTicks == 1

-----------------------------------------------------------------------------
(* Strings *)

Digits == <<"0", "1", "2", "3", "4", "5", "6", "7", "8", "9">>

RECURSIVE Str(_)
\* str(n) of a non-negative int: its decimal digits, unpadded
Str(n) == IF n < 10 THEN <<Digits[n + 1]>>
          ELSE Str(n \div 10) \o <<Digits[(n % 10) + 1]>>

LastIndexOf(s, c) ==
    LET I == {k \in 1..Len(s) : s[k] = c}
    IN  IF I = {} THEN 0 ELSE CHOOSE k \in I : \A m \in I : m <= k

\* s.split("/")[-1]
SplitLast(s) == SubSeq(s, LastIndexOf(s, "/") + 1, Len(s))

\* what precedes the last "/" of a path: the directory the host files it under
DirOf(p) == SubSeq(p, 1, LastIndexOf(p, "/") - 1)

Range(s) == {s[k] : k \in 1..Len(s)}

Perms(S) == {s \in [1..Cardinality(S) -> S] :
                \A a, b \in 1..Cardinality(S) : a # b => s[a] # s[b]}

-----------------------------------------------------------------------------
(* Configuration (config.py) *)

\* cfg.PARENT_DIR_PATH: "/data/exports"
PARENT_DIR_PATH == <<"/", "d", "a", "t", "a", "/", "e", "x", "p", "o", "r", "t", "s">>

\* cfg.PROCESSED_DIR_PATH: "/data/processed/"
PROCESSED_DIR_PATH ==
    <<"/", "d", "a", "t", "a", "/", "p", "r", "o", "c", "e", "s", "s", "e", "d", "/">>

FileNames == << <<"a">>, <<"b">>, <<"c">>, <<"d">> >>

\* the names a file on the host can have
Files == {FileNames[k] : k \in 1..MaxFiles}

-----------------------------------------------------------------------------
(* The wall clock *)

\* the wall clock when the model starts: 2024-05-03 13:00
StartTime == [year |-> 2024, month |-> 5, day |-> 3, hour |-> 13]

DaysInMonth(y, m) ==
    IF m = 2 THEN (IF (y % 4 = 0 /\ y % 100 # 0) \/ y % 400 = 0 THEN 29 ELSE 28)
    ELSE IF m \in {4, 6, 9, 11} THEN 30 ELSE 31

NextHour(t) ==
    IF t.hour < 23 THEN [t EXCEPT !.hour = t.hour + 1]
    ELSE IF t.day < DaysInMonth(t.year, t.month)
         THEN [t EXCEPT !.hour = 0, !.day = t.day + 1]
    ELSE IF t.month < 12
         THEN [t EXCEPT !.hour = 0, !.day = 1, !.month = t.month + 1]
    ELSE [year |-> t.year + 1, month |-> 1, day |-> 1, hour |-> 0]

-----------------------------------------------------------------------------
(* The remote host and the bucket *)

\* where the producer puts file f: <pending directory>/<f>
PendingPath(f) == PARENT_DIR_PATH \o <<"/">> \o f

\* sftp_client.chdir(dir); sftp_client.listdir(): the names filed under dir
listdir(fs, dir) == {SplitLast(p) : p \in {q \in fs : DirOf(q) = dir}}

\* the objects of the bucket that hold file f: the keys that end in /<f>
Stored(bucket, f) == {k \in bucket : SplitLast(k) = f}

\* the host running "mv src dest"
Mv(fs, src, dest) == IF src \in fs THEN (fs \ {src}) \cup {dest} ELSE fs

-----------------------------------------------------------------------------
(* The methods of FTPIngestion *)

\* create_ssh_connection: a new SSHClient is bound, then connect() succeeds or raises
create_ssh_connection(connect_ok) ==
    [ssh_client |-> IF connect_ok THEN "connected" ELSE "new", ssh_ok |-> connect_ok]

\* line 59 rebinds self.ssh_client: the client it held is dropped, and paramiko's
\* collection hook may or may not close the transport a channel of it still uses
ChannelAfterRebind(sftp) == IF sftp = "open" THEN {"open", "closed"} ELSE {sftp}

\* create_sftp_connection on the object self; its return value is the sftp_ok field
create_sftp_connection(self, connect_ok, open_sftp_ok) ==
    LET ssh == create_ssh_connection(connect_ok)
    IN  IF ssh.ssh_ok
        THEN IF open_sftp_ok
             THEN [ssh_client |-> ssh.ssh_client, ssh_ok |-> ssh.ssh_ok,
                   sftp_client |-> "open", sftp_ok |-> TRUE]
             ELSE [ssh_client |-> ssh.ssh_client, ssh_ok |-> ssh.ssh_ok,
                   sftp_client |-> self.sftp_client, sftp_ok |-> FALSE]
        ELSE [ssh_client |-> ssh.ssh_client, ssh_ok |-> ssh.ssh_ok,
              sftp_client |-> self.sftp_client, sftp_ok |-> self.sftp_ok]

\* dest built from the directory's name with nothing between it and the file name
MoveDest_unseparated(name) == DirOf(PROCESSED_DIR_PATH) \o name

\* line 116: dest = processed_directory + source_file_name
MoveDest(name) == PROCESSED_DIR_PATH \o name

\* line 115: src = self.ftp_directory_path + '/' + source_file_name
MoveSrc(name) == ftp_directory_path \o <<"/">> \o name

\* the error of exec_command left uncaught
move_error_uncaught == TRUE

\* lines 118-122: an error of exec_command is caught and printed
move_error_propagates == FALSE

\* what exec_command can do: raise; return with mv failing on the host; return with mv done
MoveOutcomes(ssh) == IF ssh = "connected" THEN {"raise", "mv_fail", "ok"} ELSE {"raise"}

\* move_files_to_processed: the host's files afterwards
move_files_to_processed(fs, name, outcome) ==
    IF outcome = "ok" THEN Mv(fs, MoveSrc(name), MoveDest(name)) ELSE fs

\* a number written with two digits at least
Str2(n) == IF n < 10 THEN <<"0">> \o Str(n) ELSE Str(n)

\* the partition with month, day and hour zero-padded
create_s3_partition_padded(t) ==
    LET parent_dir == SplitLast(ftp_directory_path)
    IN  parent_dir \o <<"/", "y", "e", "a", "r", " ", "=", " ">> \o Str(t.year)
                   \o <<"/", "m", "o", "n", "t", "h", " ", "=", " ">> \o Str2(t.month)
                   \o <<"/", "d", "a", "y", " ", "=", " ">> \o Str2(t.day)
                   \o <<"/", "h", "o", "u", "r", " ", "=", " ">> \o Str2(t.hour)
                   \o <<"/">>

\* create_s3_partition at wall-clock time t
create_s3_partition(t) ==
    LET parent_dir == SplitLast(ftp_directory_path)
    IN  parent_dir \o <<"/", "y", "e", "a", "r", " ", "=", " ">> \o Str(t.year)
                   \o <<"/", "m", "o", "n", "t", "h", " ", "=", " ">> \o Str(t.month)
                   \o <<"/", "d", "a", "y", " ", "=", " ">> \o Str(t.day)
                   \o <<"/", "h", "o", "u", "r", " ", "=", " ">> \o Str(t.hour)
                   \o <<"/">>

\* an upload that replaces the objects the bucket already holds of the file
s3_upload_replacing(bucket, s3_target_file, upload_ok) ==
    [s3 |-> IF upload_ok
            THEN (bucket \ Stored(bucket, SplitLast(s3_target_file))) \cup {s3_target_file}
            ELSE bucket,
     ret |-> upload_ok]

\* s3_upload_file_multipart: the bucket afterwards and the value returned
s3_upload_file_multipart(bucket, s3_target_file, upload_ok) ==
    [s3 |-> IF upload_ok THEN bucket \cup {s3_target_file} ELSE bucket, ret |-> upload_ok]

\* the partition derived again for each file, at the time t of its upload
S3TargetFile_rederived(partition, ftp_file, t) == create_s3_partition(t) \o ftp_file

\* lines 188-189: s3_partition+ftp_file, the partition being the one of line 183
S3TargetFile(partition, ftp_file, t) == partition \o ftp_file

\* the file appended whatever the upload returned
AppendAlways(to_move, ftp_file, ret) == Append(to_move, ftp_file)

\* lines 188-191: the move-list after the upload of ftp_file returned ret
AppendIfUploaded(to_move, ftp_file, ret) ==
    IF ret THEN Append(to_move, ftp_file) ELSE to_move

\* the move loop run over the listing
MoveList_listing(to_upload, to_move) == to_upload

\* line 195: the list the move loop iterates
MoveList(to_upload, to_move) == to_move

\* line 180: the branch taken on the value create_sftp_connection returned
SessionBranch(ret) == IF ret THEN "list" ELSE "close"

\* the except clause going on to the move loop
ExceptTarget_moves == "move"

\* the call of close_connections placed inside the try block: an error skips it
ExceptTarget_skips_close == "done"

\* lines 201-204: an Exception raised in the try block is printed, then line 204 runs
ExceptTarget == "close"

\* lines 194-198: after the upload loop
AfterUploads(to_move) == IF to_move # <<>> THEN "move" ELSE "close"

\* close_connections closing nothing
close_nothing(sftp, ssh) == [sftp_client |-> sftp, ssh_client |-> ssh, raised |-> FALSE]

\* close_connections: the handles afterwards, and whether the call raised
close_connections(sftp, ssh) ==
    IF sftp = "None"
    THEN [sftp_client |-> sftp, ssh_client |-> ssh, raised |-> TRUE]
    ELSE IF ssh = "None"
    THEN [sftp_client |-> "closed", ssh_client |-> ssh, raised |-> TRUE]
    ELSE [sftp_client |-> "closed", ssh_client |-> "closed", raised |-> FALSE]

-----------------------------------------------------------------------------
(* State *)

\* what a run has done so far
NewRun == [listed |-> FALSE, open_failed |-> FALSE, attempted |-> {}, upl_ok |-> {},
           upl_failed |-> {}, upl_again |-> {}, move_attempted |-> {}, move_ok |-> {}, move_failed |-> {},
           close_calls |-> 0, close_raised |-> FALSE, after_close |-> FALSE,
           open_ret |-> FALSE, list_failed |-> FALSE, listed_at |-> StartTime]

Init ==
    /\ ssh_client = "None"
    /\ sftp_client = "None"
    /\ ssh_ok = FALSE
    /\ sftp_ok = FALSE
    /\ ftp_directory_path = PARENT_DIR_PATH
    /\ remote_fs = {}
    /\ hist = [run |-> NewRun, prev_failed |-> {}, prev_unmoved |-> {}, seen |-> {}]
    /\ s3 = {}
    /\ now = StartTime
    /\ ticks = 0
    /\ pc = "idle"
    /\ files_to_upload = <<>>
    /\ s3_partition = <<>>
    /\ files_to_move = <<>>
    /\ i = 1
    /\ j = 1
    /\ runs = 0

locals == <<files_to_upload, s3_partition, files_to_move, i, j>>
object == <<ssh_client, sftp_client, ssh_ok, sftp_ok, ftp_directory_path>>
world == <<remote_fs, s3, now, ticks>>

\* a step of a run that works on files, recorded with whether close_connections came before it
Step(h) == [h EXCEPT !.run.after_close = @ \/ h.run.close_calls > 0]

-----------------------------------------------------------------------------
(* Operations *)

\* FTPIngestion(): __init__ binds the handles and flags of config.py
Construct ==
    /\ pc = "idle"
    /\ runs > 0
    /\ ssh_client' = "None"
    /\ sftp_client' = "None"
    /\ ssh_ok' = FALSE
    /\ sftp_ok' = FALSE
    /\ ftp_directory_path' = PARENT_DIR_PATH
    /\ UNCHANGED <<world, pc, locals, runs, hist>>

\* initiate_ingestion, lines 179-180 and 199-200: create_sftp_connection and the branch on it
OpenSession ==
    /\ pc = "idle"
    /\ runs < MaxRuns
    /\ \E connect_ok \in BOOLEAN, open_sftp_ok \in BOOLEAN,
          ch \in ChannelAfterRebind(sftp_client) :
          LET self == [ssh_client |-> ssh_client, sftp_client |-> ch,
                       ssh_ok |-> ssh_ok, sftp_ok |-> sftp_ok]
              new == create_sftp_connection(self, connect_ok, open_sftp_ok)
          IN  /\ ssh_client' = new.ssh_client
              /\ sftp_client' = new.sftp_client
              /\ ssh_ok' = new.ssh_ok
              /\ sftp_ok' = new.sftp_ok
              /\ pc' = SessionBranch(new.sftp_ok)
              /\ hist' = [hist EXCEPT !.run.open_failed = ~(connect_ok /\ open_sftp_ok),
                                       !.run.open_ret = new.sftp_ok]
    /\ runs' = runs + 1
    /\ UNCHANGED <<ftp_directory_path, world, locals>>

\* lines 181-184: chdir, listdir, create_s3_partition, files_to_move = []
ListFiles ==
    /\ pc = "list"
    /\ \/ \* chdir or listdir raises: always on a channel that is not open
          /\ pc' = ExceptTarget
          /\ hist' = [Step(hist) EXCEPT !.run.list_failed = TRUE]
          /\ UNCHANGED locals
       \/ /\ sftp_client = "open"
          /\ \E order \in Perms(listdir(remote_fs, ftp_directory_path)) :
                /\ files_to_upload' = order
                /\ pc' = IF order = <<>> THEN AfterUploads(<<>>) ELSE "upload"
          /\ s3_partition' = create_s3_partition(now)
          /\ files_to_move' = <<>>
          /\ i' = 1
          /\ j' = 1
          /\ hist' = [Step(hist) EXCEPT !.run.listed = TRUE, !.run.listed_at = now]
    /\ UNCHANGED <<object, world, runs>>

\* lines 186-191: one iteration of the upload loop
UploadFile ==
    /\ pc = "upload"
    /\ i <= Len(files_to_upload)
    /\ LET ftp_file == files_to_upload[i]
           h == [Step(hist) EXCEPT !.run.attempted = @ \cup {ftp_file}]
       IN  \/ \* line 187: sftp_client.file raises
              /\ pc' = ExceptTarget
              /\ hist' = h
              /\ UNCHANGED <<s3, locals>>
           \/ /\ sftp_client = "open"
              /\ \E upload_ok \in BOOLEAN :
                    LET r == s3_upload_file_multipart(
                                 s3, S3TargetFile(s3_partition, ftp_file, now), upload_ok)
                        to_move == AppendIfUploaded(files_to_move, ftp_file, r.ret)
                    IN  /\ s3' = r.s3
                        /\ files_to_move' = to_move
                        /\ i' = i + 1
                        /\ pc' = IF i + 1 > Len(files_to_upload)
                                 THEN AfterUploads(to_move) ELSE "upload"
                        /\ hist' = IF upload_ok
                                   THEN [h EXCEPT !.run.upl_ok = @ \cup {ftp_file},
                                                  !.run.upl_again =
                                                      IF Stored(s3, ftp_file) # {}
                                                      THEN @ \cup {ftp_file} ELSE @]
                                   ELSE [h EXCEPT !.run.upl_failed = @ \cup {ftp_file}]
              /\ UNCHANGED <<files_to_upload, s3_partition, j>>
    /\ UNCHANGED <<object, remote_fs, now, ticks, runs>>

\* lines 195-196: one iteration of the move loop, the call of move_files_to_processed
MoveFile ==
    /\ pc = "move"
    /\ LET list == MoveList(files_to_upload, files_to_move)
       IN  /\ j <= Len(list)
           /\ \E outcome \in MoveOutcomes(ssh_client) :
                 LET uploaded_file == list[j]
                     h == [Step(hist) EXCEPT !.run.move_attempted = @ \cup {uploaded_file}]
                 IN  /\ remote_fs' = move_files_to_processed(remote_fs, uploaded_file, outcome)
                     /\ hist' = IF outcome = "ok"
                                THEN [h EXCEPT !.run.move_ok = @ \cup {uploaded_file}]
                                ELSE [h EXCEPT !.run.move_failed = @ \cup {uploaded_file}]
                     /\ IF outcome = "raise" /\ move_error_propagates
                        THEN pc' = ExceptTarget /\ j' = j
                        ELSE /\ j' = j + 1
                             /\ pc' = IF j + 1 > Len(list) THEN "close" ELSE "move"
    /\ UNCHANGED <<object, s3, now, ticks, files_to_upload, s3_partition, files_to_move, i, runs>>

\* line 204 and lines 206-212: close_connections
CloseConnections ==
    /\ pc = "close"
    /\ LET r == close_connections(sftp_client, ssh_client)
       IN  /\ sftp_client' = r.sftp_client
           /\ ssh_client' = r.ssh_client
           /\ hist' = [hist EXCEPT !.run.close_calls = @ + 1, !.run.close_raised = r.raised]
    /\ pc' = "done"
    /\ UNCHANGED <<ssh_ok, sftp_ok, ftp_directory_path, world, locals, runs>>

\* initiate_ingestion is left: by returning, or by the error close_connections raised
Return ==
    /\ pc = "done"
    /\ pc' = "idle"
    /\ files_to_upload' = <<>>
    /\ s3_partition' = <<>>
    /\ files_to_move' = <<>>
    /\ i' = 1
    /\ j' = 1
    /\ hist' = [hist EXCEPT
                    !.run = NewRun,
                    !.prev_failed = hist.run.upl_failed,
                    \* the objects the run stored for files whose move then failed
                    !.prev_unmoved = {S3TargetFile(s3_partition, f, hist.run.listed_at) :
                                         f \in hist.run.upl_ok \cap hist.run.move_failed}]
    /\ UNCHANGED <<object, world, runs>>

\* the name of the file the producer makes next: names are labels, given in the
\* order the files are made (the listing returns them in any order)
NewFiles(seen) == {FileNames[k] : k \in {m \in 1..MaxFiles : m = Cardinality(seen) + 1}}

\* the producer on the host puts a new file into the pending directory
Arrive ==
    /\ \E f \in NewFiles(hist.seen) :
          /\ remote_fs' = remote_fs \cup {PendingPath(f)}
          /\ hist' = [hist EXCEPT !.seen = @ \cup {f}]
    /\ UNCHANGED <<object, s3, now, ticks, pc, locals, runs>>

\* the wall clock reaches the next hour. The clock is read at line 183 only, so
\* the hour changes that can be told apart are those between two runs and those
\* after the listing of a run and before the end of its upload loop.
Tick ==
    /\ pc \in {"idle", "upload"}
    /\ ticks < MaxTicks
    /\ now' = NextHour(now)
    /\ ticks' = ticks + 1
    /\ UNCHANGED <<object, remote_fs, s3, pc, locals, runs, hist>>

Next ==
    \/ Construct
    \/ OpenSession
    \/ ListFiles
    \/ UploadFile
    \/ MoveFile
    \/ CloseConnections
    \/ Return
    \/ Arrive
    \/ Tick

Spec == Init /\ [][Next]_vars

-----------------------------------------------------------------------------
(* create_s3_partition called on its own, for a directory path and a clock    *)
(* reading drawn from the sets below                                          *)

\* "/data/exports", "exports", "/data/exports/", "/srv/in"
DirPaths == { PARENT_DIR_PATH,
              <<"e", "x", "p", "o", "r", "t", "s">>,
              PARENT_DIR_PATH \o <<"/">>,
              <<"/", "s", "r", "v", "/", "i", "n">> }

Times == [year : {2024, 2025}, month : {1, 5, 12}, day : {1, 3, 28}, hour : {0, 9, 13, 23}]

PartitionInit ==
    /\ ssh_client = "None"
    /\ sftp_client = "None"
    /\ ssh_ok = FALSE
    /\ sftp_ok = FALSE
    /\ ftp_directory_path \in DirPaths
    /\ remote_fs = {}
    /\ hist = [run |-> NewRun, prev_failed |-> {}, prev_unmoved |-> {}, seen |-> {}]
    /\ s3 = {}
    /\ now \in Times
    /\ ticks = 0
    /\ pc = "call"
    /\ files_to_upload = <<>>
    /\ s3_partition = <<>>
    /\ files_to_move = <<>>
    /\ i = 1
    /\ j = 1
    /\ runs = 0

\* s3_partition = self.create_s3_partition()
CallCreateS3Partition ==
    /\ pc = "call"
    /\ s3_partition' = create_s3_partition(now)
    /\ pc' = "returned"
    /\ UNCHANGED <<object, world, files_to_upload, files_to_move, i, j, runs, hist>>

PartitionNext == CallCreateS3Partition

PartitionSpec == PartitionInit /\ [][PartitionNext]_vars

-----------------------------------------------------------------------------
(* Properties *)

run == hist.run
Listing == Range(files_to_upload)
Pending == listdir(remote_fs, PARENT_DIR_PATH)
Processed == listdir(remote_fs, DirOf(PROCESSED_DIR_PATH))
Ended == pc = "done"

\* C1: in every run of initiate_ingestion close_connections is invoked exactly
\* once, and no listing, upload or move step of the run comes after it, whether
\* or not opening the session, the listing, a read stream, an upload or a move failed.
C1_CloseInvokedOnceAtEnd ==
    /\ Ended => run.close_calls = 1
    /\ ~Ended => run.close_calls = 0
    /\ ~run.after_close

\* a run ended after an upload succeeded and a later file's read stream failed to open
C1_Witness ==
    /\ Ended
    /\ run.upl_ok # {}
    /\ run.attempted # run.upl_ok \cup run.upl_failed

\* C2: close_connections completes without raising in every state it can be
\* called in: no SFTP client ever created, SSH open but the SFTP channel not, and
\* a session that was already closed.
C2_CloseNeverRaises == ~run.close_raised

\* C3: every file the listing returned is processed by the run's upload loop,
\* whatever happened to the files before it (a read stream that did not open,
\* an upload that failed).
C3_EveryListedFileAttempted == (Ended /\ run.listed) => Listing \subseteq run.attempted

\* C4: a move is attempted for a file only if its upload succeeded earlier in
\* the same run, and a file is in the processed directory only if an object of
\* it is in storage.
C4_MoveOnlyAfterUpload ==
    /\ run.move_attempted \subseteq run.upl_ok
    /\ \A f \in Processed : Stored(s3, f) # {}

\* a move was attempted in a run in which another file's upload failed
C4_Witness == run.move_attempted # {} /\ run.upl_failed # {}

FullySuccessful ==
    /\ Ended
    /\ run.listed
    /\ run.upl_ok = Listing
    /\ run.move_ok = Listing

C7_UploadedFileMoveAttempted == Ended => run.upl_ok \subseteq run.move_attempted

\* C8: when opening the session failed, the run obtains no listing, uploads
\* nothing and moves nothing: storage and the processed directory stay as they
\* are and nothing leaves the pending directory.
C8_OpenFailureTouchesNothing ==
    [][hist'.run.open_failed =>
          /\ ~hist'.run.listed
          /\ hist'.run.attempted = {}
          /\ hist'.run.move_attempted = {}
          /\ s3' = s3
          /\ remote_fs \subseteq remote_fs'
          /\ listdir(remote_fs', DirOf(PROCESSED_DIR_PATH)) = Processed]_vars

\* a run on a reused object ended after its SSH connection failed while sftp_ok
\* still held the True of an earlier run
C8_Witness == Ended /\ run.open_failed /\ sftp_ok

\* C9: over any sequence of runs no file is stored as more than one object, and
\* no file that has been uploaded is uploaded again by a later run.
C9_ExactlyOnce ==
    \A f \in Files : Cardinality(Stored(s3, f)) <= 1 /\ f \notin run.upl_again

\* C10: once the move phase has started, a move is attempted for every file of
\* the move-list whatever moves failed, and the run goes on to call
\* close_connections.
C10_MoveFailureIsolated ==
    /\ (pc \in {"close", "done"} /\ run.move_attempted # {})
          => Range(files_to_move) \subseteq run.move_attempted
    /\ (Ended /\ run.move_attempted # {}) => run.close_calls = 1

\* a run ended in which a move failed for a file that was not the last of the move-list
C10_Witness ==
    /\ Ended
    /\ \E k \in 1..(Len(files_to_move) - 1) : files_to_move[k] \in run.move_failed

\* C11: at the end of every run every handle the run opened is closed: no SSH
\* transport is left connected and no SFTP channel open, also when opening the
\* SFTP channel on an open transport failed.
C11_DisconnectedAtRunEnd == Ended => (ssh_client # "connected" /\ sftp_client # "open")

\* the objects of the previous run, with the files they hold, whose move failed
Unmoved == {[key |-> k, file |-> SplitLast(k)] : k \in hist.prev_unmoved}

\* C12 as stated: a file uploaded but not moved stays stored and pending, the
\* run is closed, and the next run uploads it again under another partition
\* key, so that storage holds two objects of it.
C12_UnmovedFileDuplicatedByNextRun ==
    Ended =>
        /\ \A f \in run.upl_ok \cap run.move_failed :
              run.close_calls = 1 /\ s3_partition \o f \in s3 /\ f \in Pending
        /\ \A u \in Unmoved :
              /\ u.file \in run.upl_ok
              /\ s3_partition \o u.file # u.key
              /\ {u.key, s3_partition \o u.file} \subseteq s3

\* C12 as amended: a file uploaded but not moved stays stored and pending and
\* the run is closed without error; every listing the next run obtains includes
\* it, and if that run uploads it, its object is stored under that run's
\* partition key next to the earlier one: two objects when the keys differ.
C12_UnmovedFileStoredAgainOnRetry ==
    /\ Ended =>
          \A f \in run.upl_ok \cap run.move_failed :
              /\ run.close_calls = 1 /\ ~run.close_raised
              /\ s3_partition \o f \in s3
              /\ f \in Pending
    /\ \A u \in Unmoved :
          /\ u.key \in s3
          /\ run.listed => u.file \in Listing
          /\ u.file \in run.upl_ok =>
                /\ s3_partition \o u.file \in s3
                /\ s3_partition \o u.file # u.key => Cardinality(Stored(s3, u.file)) >= 2

\* a run ended that uploaded, under a later partition key, a file the previous
\* run had uploaded and failed to move
C12_Witness ==
    Ended /\ \E u \in Unmoved : u.file \in run.upl_ok /\ s3_partition \o u.file # u.key

\* C15: no move is made before an upload was made for every listed file, and no
\* file is opened or uploaded after the first move of the run.
C15_MovesAfterAllUploads ==
    [][/\ hist'.run.move_attempted # {} =>
              Range(files_to_upload') \subseteq hist'.run.upl_ok \cup hist'.run.upl_failed
       /\ (run.move_attempted # {} /\ ~Ended) =>
              /\ hist'.run.attempted = run.attempted
              /\ hist'.run.upl_ok = run.upl_ok
              /\ hist'.run.upl_failed = run.upl_failed]_vars

\* a run over two or more files ended after its move phase
C15_Witness == Ended /\ Len(files_to_upload) >= 2 /\ run.move_attempted # {}

\* C16: the partition key is the one computed at the listing, it does not change
\* for the rest of the run, and every object the run writes has that key
\* followed by the name of a listed file, whatever the clock shows by then.
C16_OnePartitionPerRun ==
    [][/\ hist'.run.listed => s3_partition' = create_s3_partition(hist'.run.listed_at)
       /\ (run.listed /\ hist'.run.listed) => s3_partition' = s3_partition
       /\ s3' # s3 => \E f \in Listing : s3' = s3 \cup {s3_partition \o f}]_vars

\* a run ended whose last listed file was uploaded after the hour had changed
\* (the clock moves inside a run only while the upload loop is running)
C16_Witness ==
    /\ Ended
    /\ now # run.listed_at
    /\ files_to_upload # <<>>
    /\ files_to_upload[Len(files_to_upload)] \in run.upl_ok

\* C17: when chdir or listdir raises, the run opens and uploads no file, moves
\* none, and goes on to call close_connections.
C17_ListingFailureEndsRun ==
    run.list_failed =>
        /\ pc \in {"close", "done"}
        /\ ~run.listed
        /\ run.attempted = {} /\ run.upl_ok = {} /\ run.move_attempted = {}
        /\ Ended => run.close_calls = 1

\* a run ended whose session opened and whose listing then failed
C17_Witness == Ended /\ run.list_failed /\ ~run.open_failed

\* C18: in every reachable state sftp_ok is true only if ssh_ok is true.
C18_SftpOkImpliesSshOk == sftp_ok => ssh_ok

\* how initiate_ingestion was left: line 204 is outside the try block
RunOutcome == IF run.close_raised THEN "raised" ELSE "returned"

\* C19: every run that ends has returned normally: no error leaves
\* initiate_ingestion, whatever failed in it.
C19_RunReturnsNormally == Ended => (run.close_calls = 1 /\ RunOutcome = "returned")

\* C20: create_sftp_connection returns True only if that call opened both the
\* SSH connection and the SFTP channel.
C20_TrueOnlyIfOpenedByThisCall == run.open_ret => ~run.open_failed

RECURSIVE SplitSlash(_)
\* the segments of s between its "/" characters
SplitSlash(s) ==
    LET I == {k \in 1..Len(s) : s[k] = "/"}
    IN  IF I = {} THEN <<s>>
        ELSE LET k == CHOOSE m \in I : \A n \in I : m <= n
             IN  <<SubSeq(s, 1, k - 1)>> \o SplitSlash(SubSeq(s, k + 1, Len(s)))

RECURSIVE ParseNat(_)
\* the number a non-empty sequence of decimal digits denotes
ParseNat(d) ==
    LET v == CHOOSE n \in 0..9 : Digits[n + 1] = d[Len(d)]
    IN  IF Len(d) = 1 THEN v ELSE 10 * ParseNat(SubSeq(d, 1, Len(d) - 1)) + v

\* seg is label followed by the unpadded decimal digits of n
IsField(seg, label, n) ==
    /\ Len(seg) > Len(label)
    /\ SubSeq(seg, 1, Len(label)) = label
    /\ LET d == SubSeq(seg, Len(label) + 1, Len(seg))
       IN  /\ \A k \in 1..Len(d) : \E m \in 1..10 : Digits[m] = d[k]
           /\ ParseNat(d) = n
           /\ Len(d) = 1 \/ d[1] # "0"

\* seg is what follows the last "/" of path (all of path when it has none)
IsLastSegment(seg, path) ==
    /\ \A k \in 1..Len(seg) : seg[k] # "/"
    /\ Len(seg) <= Len(path)
    /\ SubSeq(path, Len(path) - Len(seg) + 1, Len(path)) = seg
    /\ Len(seg) < Len(path) => path[Len(path) - Len(seg)] = "/"

\* "exports/year = 2024/month = 5/day = 3/hour = 13/"
ExamplePartition ==
    <<"e", "x", "p", "o", "r", "t", "s", "/", "y", "e", "a", "r", " ", "=", " ", "2", "0", "2", "4",
      "/", "m", "o", "n", "t", "h", " ", "=", " ", "5", "/", "d", "a", "y", " ", "=", " ", "3",
      "/", "h", "o", "u", "r", " ", "=", " ", "1", "3", "/">>

====
